---- MODULE Spec2Model ----
(***************************************************************************)
(* Model of the UART listener service (scripts/uart_listener.py): the      *)
(* line buffer, frame extraction, UTF-8 / hex decoding, emission on stdout *)
(* and stderr, JSON classification and the presence state machine.         *)
(*                                                                         *)
(* Bytes are integers 0..255, a bytes object is a sequence of bytes, and a *)
(* str is a sequence of Unicode code points.  Timestamps                   *)
(* (datetime.now()) are not modelled: an output event is its data and its  *)
(* type.                                                                   *)
(***************************************************************************)
EXTENDS Integers, Sequences, FiniteSets, TLC

(***************************************************************************)
(* Bounds of the model.                                                    *)
(***************************************************************************)
\* The number of reads (loop iterations that found bytes waiting) explored.
MaxReads == 4

(***************************************************************************)
(* Program constants.                                                      *)
(***************************************************************************)
\* uart_listener.py:130  `if len(line_buffer) > 10000`
OverflowLimit == 10000
\* uart_listener.py:39  send_led_command(10)
DimBrightness == 10
\* uart_listener.py:47  send_led_command(100)
FullBrightness == 100
\* b'\n', the delimiter of line 87 and line 89
NL == 10
\* uart_debug.py:62  `0 < time_delta < 10`
CollisionWindow == 10
\* The value of time.time(), in ms, when the monitor starts.
StartTime == 1000

(***************************************************************************)
(* Byte strings and texts used as inputs and as literals of the program.   *)
(***************************************************************************)
\* {"node_type":"HP","event":"EXIT"}
ExitText == <<123, 34, 110, 111, 100, 101, 95, 116, 121, 112, 101, 34, 58, 34, 72, 80, 34, 44, 34, 101, 118, 101, 110, 116, 34, 58, 34, 69, 88, 73, 84, 34, 125>>
\* {"node_type":"HP","event":"ENTER"}
EnterText == <<123, 34, 110, 111, 100, 101, 95, 116, 121, 112, 101, 34, 58, 34, 72, 80, 34, 44, 34, 101, 118, 101, 110, 116, 34, 58, 34, 69, 78, 84, 69, 82, 34, 125>>
\* {"node_type":"HP","event":"      (the start of a presence packet)
HeadText == <<123, 34, 110, 111, 100, 101, 95, 116, 121, 112, 101, 34, 58, 34, 72, 80, 34, 44, 34, 101, 118, 101, 110, 116, 34, 58, 34>>
\* EXIT"}                           (the end of an EXIT packet)
TailExit == <<69, 88, 73, 84, 34, 125>>
\* {"node_type":"HP","event":"HP"}  (a presence packet with another event)
OtherEventText == <<123, 34, 110, 111, 100, 101, 95, 116, 121, 112, 101, 34, 58, 34, 72, 80, 34, 44, 34, 101, 118, 101, 110, 116, 34, 58, 34, 72, 80, 34, 125>>
\* {"event":"EXIT"}                 (no node_type marker)
NoMarkerText == <<123, 34, 101, 118, 101, 110, 116, 34, 58, 34, 69, 88, 73, 84, 34, 125>>
\* "EXIT"                           (JSON, but a string and not an object)
NonObjectText == <<34, 69, 88, 73, 84, 34>>

\* The str literals of lines 37, 45 and 113.
KeyNodeType == <<110, 111, 100, 101, 95, 116, 121, 112, 101>>
KeyEvent == <<101, 118, 101, 110, 116>>
StrHP == <<72, 80>>
StrEXIT == <<69, 88, 73, 84>>
StrENTER == <<69, 78, 84, 69, 82>>
\* json.dumps({"event": "screen_dim"}) = {"event": "screen_dim"}
ScreenDimData == <<123, 34, 101, 118, 101, 110, 116, 34, 58, 32, 34, 115, 99, 114, 101, 101, 110, 95, 100, 105, 109, 34, 125>>
\* json.dumps({"event": "screen_brighten"}) = {"event": "screen_brighten"}
ScreenBrightenData == <<123, 34, 101, 118, 101, 110, 116, 34, 58, 32, 34, 115, 99, 114, 101, 101, 110, 95, 98, 114, 105, 103, 104, 116, 101, 110, 34, 125>>

\* {"avg_bpm":72}: a heart-rate packet.
AvgBpmText == <<123, 34, 97, 118, 103, 95, 98, 112, 109, 34, 58, 55, 50, 125>>
\* {"ir_value":5,"event":"EXIT"}: the markers of both kinds of packet.
IrValueText == <<123, 34, 105, 114, 95, 118, 97, 108, 117, 101, 34, 58, 53, 44, 34, 101, 118, 101, 110, 116, 34, 58, 34, 69, 88, 73, 84, 34, 125>>
\* The str literals of uart_debug.py lines 52 and 55 ('event' is KeyEvent,
\* 'EXIT' and 'ENTER' are StrEXIT and StrENTER).
StrAvgBpm == <<97, 118, 103, 95, 98, 112, 109>>
StrIrValue == <<105, 114, 95, 118, 97, 108, 117, 101>>

\* n bytes 'x': delimiter-free filler.
Fill(n) == [i \in 1..n |-> 120]

(***************************************************************************)
(* The chunks ser.read(ser.in_waiting) may return in the model.  A         *)
(* behaviour reads chunks of one of three families, fixed by Init.         *)
(***************************************************************************)
ChunkTable ==
  << <<111>>,                      \*  1  o
     <<NL>>,                       \*  2  a delimiter alone
     <<32>>,                       \*  3  a space
     <<195>>,                      \*  4  first byte of U+00E9 in UTF-8
     <<169>>,                      \*  5  second byte of U+00E9 (alone: invalid)
     <<NL, NL>>,                   \*  6  two delimiters
     <<111, NL, 111>>,             \*  7  end of a frame and start of the next
     ExitText \o <<NL>>,           \*  8
     EnterText \o <<NL>>,          \*  9
     HeadText,                     \* 10
     TailExit \o <<NL>>,           \* 11
     OtherEventText \o <<NL>>,     \* 12
     NoMarkerText \o <<NL>>,       \* 13
     NonObjectText \o <<NL>>,      \* 14
     Fill(OverflowLimit),          \* 15  exactly the limit, no delimiter
     <<120>>,                      \* 16  x
     <<111, 107, NL>>,             \* 17  ok\n
     <<32, NL>>,                   \* 18  a whitespace-only frame
     <<255>>,                      \* 19  a byte that is never valid in UTF-8
     AvgBpmText \o <<NL>>,         \* 20
     IrValueText \o <<NL>>,        \* 21
     <<111, NL, 111, NL>> >>       \* 22  two frames in one read

FrameChunks == 1..7
PresenceChunks == 8..14
BulkChunks == {15, 16, 17}
ClassifyChunks == {8, 11, 13, 14, 18, 19}
MonitorChunks == {4, 8, 10, 11, 20, 21}

(***************************************************************************)
(* State.                                                                  *)
(***************************************************************************)
VARIABLES
  line_buffer,      \* line 77: bytes received and not yet extracted
  presence_state,   \* line 15: "on" or "sleep"
  stdout,           \* the primary channel: the events printed with print(json.dumps(output))
  stderr,           \* the diagnostic channel: the log lines printed with file=sys.stderr
  led_calls,        \* the brightness of every send_led_command call, in order
  launched,         \* the brightness of every sender process Popen started, in order
  pc,               \* "poll": at line 82;  "lines": at the while test of line 87;
                    \* "handler": at line 139;  "stopped": at line 149, after a
                    \* KeyboardInterrupt;  "done": the process has ended
  frames,           \* history: every `line` extracted at line 89, in order
  decodes,          \* history: the number of line.decode calls made at line 96
  handled,          \* history: every handle_presence_event call, [ev, state], in order
  fed,              \* history: the index in ChunkTable of every chunk read, in order
  chunkset,         \* the family of chunks this behaviour reads (never changes)
  ser_open,         \* ser.is_open: the serial port opened at line 62 is still open
  raised,           \* history: the number of exceptions that reached line 137
  signalled,        \* history: a KeyboardInterrupt was delivered to the process
  senders,          \* the sender processes started by Popen (line 24), in start order
  wire,             \* what the sender processes wrote to the serial port, in order:
                    \* [sender, brightness, part] for every write the port accepted
  last_packet_time, \* uart_debug.py line 32
  packet_count,     \* uart_debug.py line 33
  clock,            \* uart_debug.py: the value time.time() returns, in ms
  report,           \* uart_debug.py: what the monitor printed for each read, in order
  arrivals          \* history: the value of receive_time (line 37) of every read

\* The state of the listener loop, of the process around it, of the sender
\* processes and of the debug monitor.
loopvars == <<line_buffer, presence_state, stdout, stderr, led_calls, launched,
              frames, decodes, handled, fed, chunkset>>
procvars == <<ser_open, raised, signalled>>
sendvars == <<senders, wire>>
toolvars == <<last_packet_time, packet_count, clock, report, arrivals>>

vars == <<line_buffer, presence_state, stdout, stderr, led_calls, launched, pc,
          frames, decodes, handled, fed, chunkset, ser_open, raised, signalled,
          senders, wire, last_packet_time, packet_count, clock, report, arrivals>>

(***************************************************************************)
(* bytes.decode('utf-8') (line 96), strict: the well-formed byte sequences *)
(* of UTF-8.  A byte 0x80..0xBF continues a character, every other byte    *)
(* starts one.                                                             *)
(***************************************************************************)
IsCont(b) == b >= 128 /\ b <= 191

\* Mutant of CharLen: every byte but a continuation byte is a character of
\* its own (a one-byte encoding such as Latin-1).
CharLenOneByte(b) == 1

\* The length of the character a byte starts; 0 when no character starts with it.
CharLen(b) ==
  IF b <= 127 THEN 1
  ELSE IF b >= 194 /\ b <= 223 THEN 2
  ELSE IF b >= 224 /\ b <= 239 THEN 3
  ELSE IF b >= 240 /\ b <= 244 THEN 4
  ELSE 0

\* The range of the second byte after lead byte b (no overlong forms, no
\* surrogates, nothing above U+10FFFF).
SecondOK(b, c) ==
  IF b = 224 THEN c >= 160 /\ c <= 191
  ELSE IF b = 237 THEN c >= 128 /\ c <= 159
  ELSE IF b = 240 THEN c >= 144 /\ c <= 191
  ELSE IF b = 244 THEN c >= 128 /\ c <= 143
  ELSE IsCont(c)

\* The character starting at position i is well formed and ends where the
\* next one starts.
CharOK(bs, i) ==
  LET n == CharLen(bs[i]) IN
    /\ n > 0
    /\ i + n - 1 <= Len(bs)
    /\ \A j \in (i + 1)..(i + n - 1) : IsCont(bs[j])
    /\ (n > 1 => SecondOK(bs[i], bs[i + 1]))
    /\ (i + n <= Len(bs) => ~IsCont(bs[i + n]))

\* line.decode('utf-8') succeeds; otherwise it raises UnicodeDecodeError.
Utf8Valid(bs) ==
  /\ (Len(bs) > 0 => ~IsCont(bs[1]))
  /\ \A i \in 1..Len(bs) : ~IsCont(bs[i]) => CharOK(bs, i)

\* The code point of the (well formed) character starting at position i.
CodePointAt(bs, i) ==
  LET n == CharLen(bs[i]) IN
    IF n = 2 THEN (bs[i] - 192) * 64 + (bs[i + 1] - 128)
    ELSE IF n = 3 THEN (bs[i] - 224) * 4096 + (bs[i + 1] - 128) * 64 + (bs[i + 2] - 128)
    ELSE IF n = 4 THEN (bs[i] - 240) * 262144 + (bs[i + 1] - 128) * 4096
                       + (bs[i + 2] - 128) * 64 + (bs[i + 3] - 128)
    ELSE bs[i]

\* The code points of the characters starting in bs[lo..hi], in order.
RECURSIVE CodePoints(_, _, _)
CodePoints(bs, lo, hi) ==
  IF lo > hi THEN << >>
  ELSE IF lo = hi THEN (IF IsCont(bs[lo]) THEN << >> ELSE <<CodePointAt(bs, lo)>>)
  ELSE LET mid == (lo + hi) \div 2
       IN CodePoints(bs, lo, mid) \o CodePoints(bs, mid + 1, hi)

\* The str that line.decode('utf-8') returns for a valid line.
Utf8Decode(bs) == CodePoints(bs, 1, Len(bs))

(***************************************************************************)
(* str.strip() (line 96): the text without its leading and trailing        *)
(* whitespace, whitespace being the characters of str.isspace().           *)
(***************************************************************************)
IsSpace(c) ==
  \/ c \in 9..13
  \/ c \in 28..32
  \/ c \in {133, 160, 5760, 8232, 8233, 8239, 8287, 12288}
  \/ c \in 8192..8202

Strip(t) ==
  IF \A i \in 1..Len(t) : IsSpace(t[i]) THEN << >>
  ELSE LET first == CHOOSE i \in 1..Len(t) :
                      ~IsSpace(t[i]) /\ \A j \in 1..(i - 1) : IsSpace(t[j])
           last == CHOOSE i \in 1..Len(t) :
                      ~IsSpace(t[i]) /\ \A j \in (i + 1)..Len(t) : IsSpace(t[j])
       IN SubSeq(t, first, last)

(***************************************************************************)
(* bytes.hex() (line 123): two lowercase hexadecimal digits per byte.      *)
(***************************************************************************)
HexDigit(d) == IF d < 10 THEN 48 + d ELSE 87 + d

Hex(bs) ==
  [i \in 1..(2 * Len(bs)) |->
     LET b == bs[(i + 1) \div 2]
     IN IF i % 2 = 1 THEN HexDigit(b \div 16) ELSE HexDigit(b % 16)]

(***************************************************************************)
(* json.loads (line 112) on the texts the model's chunks can form.  The    *)
(* bytes of ChunkTable hold no digit, no '[', no '-', no backslash and not *)
(* the letters of true, false, null, NaN or Infinity, so a JSON value      *)
(* here is a string without escapes or an object; whatever else a value    *)
(* starts with makes json.loads raise JSONDecodeError.                     *)
(*                                                                         *)
(* A value is [t, s, m]: t = "str" with the text s, or t = "obj" with the  *)
(* members m (a sequence of [k, v], in the order parsed).  A parse result  *)
(* is [ok, v, next]: next is the position after the value.                 *)
(***************************************************************************)
NoValue == [t |-> "none", s |-> << >>, m |-> << >>]
ParseError == [ok |-> FALSE, v |-> NoValue, next |-> 0]
StrValue(s) == [t |-> "str", s |-> s, m |-> << >>]
ObjValue(m) == [t |-> "obj", s |-> << >>, m |-> m]

\* The whitespace json skips between tokens: space, \t, \n, \r.
IsJsonWs(c) == c \in {32, 9, 10, 13}

\* The first position at or after i that holds no JSON whitespace (Len(t) + 1
\* when there is none).
SkipWs(t, i) ==
  IF \A j \in i..Len(t) : IsJsonWs(t[j]) THEN Len(t) + 1
  ELSE CHOOSE j \in i..Len(t) : ~IsJsonWs(t[j]) /\ \A k \in i..(j - 1) : IsJsonWs(t[k])

\* scanstring, strict: t[i] is the opening quote.  The string ends at the next
\* quote; a control character before it, or no closing quote, is an error.
ParseString(t, i) ==
  LET stops == {j \in (i + 1)..Len(t) : t[j] = 34 \/ t[j] = 92 \/ t[j] < 32} IN
    IF stops = {} THEN ParseError
    ELSE LET j == CHOOSE x \in stops : \A y \in stops : x <= y IN
           IF t[j] = 34
             THEN [ok |-> TRUE, v |-> StrValue(SubSeq(t, i + 1, j - 1)), next |-> j + 1]
             ELSE ParseError

RECURSIVE ParseValue(_, _), ParseMembers(_, _, _), AfterKey(_, _, _),
          AfterColon(_, _, _, _), AfterMember(_, _, _, _), MemberEnd(_, _, _)

\* scan_once: the value starting at position i.
ParseValue(t, i) ==
  IF i > Len(t) THEN ParseError
  ELSE IF t[i] = 34 THEN ParseString(t, i)
  ELSE IF t[i] = 123 THEN ParseMembers(t, SkipWs(t, i + 1), << >>)
  ELSE ParseError

\* JSONObject: the members of an object from position i, acc being the
\* members parsed so far.  An object without members closes at once;
\* otherwise a key's opening quote is expected.
ParseMembers(t, i, acc) ==
  IF i > Len(t) THEN ParseError
  ELSE IF t[i] = 125 /\ acc = << >> THEN [ok |-> TRUE, v |-> ObjValue(<< >>), next |-> i + 1]
  ELSE IF t[i] # 34 THEN ParseError
  ELSE AfterKey(t, ParseString(t, i), acc)

\* After the key: whitespace, then the colon.
AfterKey(t, key, acc) ==
  IF ~key.ok THEN ParseError
  ELSE AfterColon(t, key, SkipWs(t, key.next), acc)

\* At the colon (position c): whitespace, then the member's value.
AfterColon(t, key, c, acc) ==
  IF c > Len(t) \/ t[c] # 58 THEN ParseError
  ELSE AfterMember(t, key, ParseValue(t, SkipWs(t, c + 1)), acc)

\* After the value: whitespace, then '}' or ','.
AfterMember(t, key, val, acc) ==
  IF ~val.ok THEN ParseError
  ELSE MemberEnd(t, SkipWs(t, val.next), Append(acc, [k |-> key.v.s, v |-> val.v]))

\* At position e after a member: '}' closes the object, ',' must be followed
\* by another member.
MemberEnd(t, e, mem) ==
  IF e > Len(t) THEN ParseError
  ELSE IF t[e] = 125 THEN [ok |-> TRUE, v |-> ObjValue(mem), next |-> e + 1]
  ELSE IF t[e] = 44 THEN ParseMembers(t, SkipWs(t, e + 1), mem)
  ELSE ParseError

\* json.loads(t): one value and nothing but whitespace around it.
JsonLoads(t) ==
  LET r == ParseValue(t, SkipWs(t, 1)) IN
    IF r.ok /\ SkipWs(t, r.next) = Len(t) + 1 THEN r ELSE ParseError

\* `key in parsed` for a dict.
HasKey(obj, key) == \E i \in 1..Len(obj.m) : obj.m[i].k = key

\* parsed.get(key) for a dict: the value of the last member with that key
\* (a later duplicate replaces an earlier one), None without one.
DictGet(obj, key) ==
  IF ~HasKey(obj, key) THEN NoValue
  ELSE LET i == CHOOSE x \in 1..Len(obj.m) :
                  obj.m[x].k = key /\ \A y \in (x + 1)..Len(obj.m) : obj.m[y].k # key
       IN obj.m[i].v

(***************************************************************************)
(* What the program prints.  An event of stdout is the dict of lines 41,   *)
(* 49, 100-104 and 121-125 without its timestamp; a line of stderr is its  *)
(* kind and the number it shows (0 when it shows none).                    *)
(***************************************************************************)
Event(data, type) == [data |-> data, type |-> type]
Log(kind, n) == [k |-> kind, n |-> n]

\* The effects of a step on the channels, the state machine and the actuator;
\* handled: the handle_presence_event calls made, each [ev, state] with the
\* presence state it found.
Effects(state, out, err, calls, procs, hcalls) ==
  [presence_state |-> state, out |-> out, err |-> err, calls |-> calls,
   procs |-> procs, handled |-> hcalls]

\* No effect at all.
NoEffects(state) == Effects(state, << >>, << >>, << >>, << >>, << >>)

(***************************************************************************)
(* send_led_command (lines 17-31).  popen_ok: subprocess.Popen started the *)
(* sender process; otherwise it raised and the failure is logged.          *)
(***************************************************************************)
\* Mutant of send_led_command: a Popen that raises is not logged (`pass`
\* in the place of line 31).
send_led_command_quiet(brightness, popen_ok) ==
  IF popen_ok
    THEN [procs |-> <<brightness>>, err |-> <<Log("led_set", brightness)>>]
    ELSE [procs |-> << >>, err |-> << >>]

send_led_command(brightness, popen_ok) ==
  IF popen_ok
    THEN [procs |-> <<brightness>>, err |-> <<Log("led_set", brightness)>>]
    ELSE [procs |-> << >>, err |-> <<Log("led_fail", 0)>>]

(***************************************************************************)
(* Mutants of handle_presence_event.                                       *)
(***************************************************************************)
\* The dim transition switches the strip off (brightness 0) instead of dimming.
handle_presence_event_off(ev, state, popen_ok) ==
  IF ev = StrValue(StrEXIT) /\ state = "on"
    THEN LET led == send_led_command(0, popen_ok) IN
           Effects("sleep",
                   <<Event(ScreenDimData, "uart_chunk")>>,
                   led.err \o <<Log("sleep_mode", 0)>>,
                   <<0>>, led.procs, <<[ev |-> ev, state |-> state]>>)
  ELSE IF ev = StrValue(StrENTER) /\ state = "sleep"
    THEN LET led == send_led_command(FullBrightness, popen_ok) IN
           Effects("on",
                   <<Event(ScreenBrightenData, "uart_chunk")>>,
                   led.err \o <<Log("active_mode", 0)>>,
                   <<FullBrightness>>, led.procs, <<[ev |-> ev, state |-> state]>>)
  ELSE Effects(state, << >>, << >>, << >>, << >>, <<[ev |-> ev, state |-> state]>>)

\* The brighten transition forgets to print its synthetic event.
handle_presence_event_silent(ev, state, popen_ok) ==
  IF ev = StrValue(StrEXIT) /\ state = "on"
    THEN LET led == send_led_command(DimBrightness, popen_ok) IN
           Effects("sleep",
                   <<Event(ScreenDimData, "uart_chunk")>>,
                   led.err \o <<Log("sleep_mode", 0)>>,
                   <<DimBrightness>>, led.procs, <<[ev |-> ev, state |-> state]>>)
  ELSE IF ev = StrValue(StrENTER) /\ state = "sleep"
    THEN LET led == send_led_command(FullBrightness, popen_ok) IN
           Effects("on",
                   << >>,
                   led.err \o <<Log("active_mode", 0)>>,
                   <<FullBrightness>>, led.procs, <<[ev |-> ev, state |-> state]>>)
  ELSE Effects(state, << >>, << >>, << >>, << >>, <<[ev |-> ev, state |-> state]>>)

\* The brighten transition forgets to assign presence_state.
handle_presence_event_sticky(ev, state, popen_ok) ==
  IF ev = StrValue(StrEXIT) /\ state = "on"
    THEN LET led == send_led_command(DimBrightness, popen_ok) IN
           Effects("sleep",
                   <<Event(ScreenDimData, "uart_chunk")>>,
                   led.err \o <<Log("sleep_mode", 0)>>,
                   <<DimBrightness>>, led.procs, <<[ev |-> ev, state |-> state]>>)
  ELSE IF ev = StrValue(StrENTER) /\ state = "sleep"
    THEN LET led == send_led_command(FullBrightness, popen_ok) IN
           Effects(state,
                   <<Event(ScreenBrightenData, "uart_chunk")>>,
                   led.err \o <<Log("active_mode", 0)>>,
                   <<FullBrightness>>, led.procs, <<[ev |-> ev, state |-> state]>>)
  ELSE Effects(state, << >>, << >>, << >>, << >>, <<[ev |-> ev, state |-> state]>>)

\* The dim transition does not test the presence state: every EXIT dims.
handle_presence_event_stateless(ev, state, popen_ok) ==
  IF ev = StrValue(StrEXIT)
    THEN LET led == send_led_command(DimBrightness, popen_ok) IN
           Effects("sleep",
                   <<Event(ScreenDimData, "uart_chunk")>>,
                   led.err \o <<Log("sleep_mode", 0)>>,
                   <<DimBrightness>>, led.procs, <<[ev |-> ev, state |-> state]>>)
  ELSE IF ev = StrValue(StrENTER) /\ state = "sleep"
    THEN LET led == send_led_command(FullBrightness, popen_ok) IN
           Effects("on",
                   <<Event(ScreenBrightenData, "uart_chunk")>>,
                   led.err \o <<Log("active_mode", 0)>>,
                   <<FullBrightness>>, led.procs, <<[ev |-> ev, state |-> state]>>)
  ELSE Effects(state, << >>, << >>, << >>, << >>, <<[ev |-> ev, state |-> state]>>)

(***************************************************************************)
(* handle_presence_event (lines 33-51): the effects of one call with the   *)
(* event `ev` (a parsed JSON value) in presence state `state`.             *)
(***************************************************************************)
handle_presence_event(ev, state, popen_ok) ==
  IF ev = StrValue(StrEXIT) /\ state = "on"
    THEN LET led == send_led_command(DimBrightness, popen_ok) IN
           Effects("sleep",
                   <<Event(ScreenDimData, "uart_chunk")>>,
                   led.err \o <<Log("sleep_mode", 0)>>,
                   <<DimBrightness>>, led.procs, <<[ev |-> ev, state |-> state]>>)
  ELSE IF ev = StrValue(StrENTER) /\ state = "sleep"
    THEN LET led == send_led_command(FullBrightness, popen_ok) IN
           Effects("on",
                   <<Event(ScreenBrightenData, "uart_chunk")>>,
                   led.err \o <<Log("active_mode", 0)>>,
                   <<FullBrightness>>, led.procs, <<[ev |-> ev, state |-> state]>>)
  ELSE Effects(state, << >>, << >>, << >>, << >>, <<[ev |-> ev, state |-> state]>>)

\* Mutant of Classify: the node_type marker is not tested.
ClassifyAnyEvent(decoded_data) ==
  LET parsed == JsonLoads(decoded_data) IN
    IF /\ parsed.ok
       /\ parsed.v.t = "obj"
       /\ HasKey(parsed.v, KeyEvent)
      THEN [call |-> TRUE, ev |-> DictGet(parsed.v, KeyEvent)]
      ELSE [call |-> FALSE, ev |-> NoValue]

\* Mutant of Classify: the marker is looked up under "type", not "node_type".
ClassifyByType(decoded_data) ==
  LET parsed == JsonLoads(decoded_data) IN
    IF /\ parsed.ok
       /\ parsed.v.t = "obj"
       /\ DictGet(parsed.v, <<116, 121, 112, 101>>) = StrValue(StrHP)
       /\ HasKey(parsed.v, KeyEvent)
      THEN [call |-> TRUE, ev |-> DictGet(parsed.v, KeyEvent)]
      ELSE [call |-> FALSE, ev |-> NoValue]

(***************************************************************************)
(* Lines 111-117: the classification of a decoded text.  call: the text is *)
(* a JSON object whose node_type is "HP" and that has an event key, so     *)
(* handle_presence_event is called with ev.  Every exception (a parse      *)
(* error, .get on a value that is no dict) is swallowed by line 115.       *)
(***************************************************************************)
Classify(decoded_data) ==
  LET parsed == JsonLoads(decoded_data) IN
    IF /\ parsed.ok
       /\ parsed.v.t = "obj"
       /\ DictGet(parsed.v, KeyNodeType) = StrValue(StrHP)
       /\ HasKey(parsed.v, KeyEvent)
      THEN [call |-> TRUE, ev |-> DictGet(parsed.v, KeyEvent)]
      ELSE [call |-> FALSE, ev |-> NoValue]

(***************************************************************************)
(* Lines 91-127: the body of the while loop for one extracted line.        *)
(***************************************************************************)
\* Mutant of SkipsLine: empty lines are handled like the others.
SkipsNothing(line) == FALSE

\* line 91: `if not line: continue`
SkipsLine(line) == line = << >>

\* Mutant of EmitsText: the text is printed even when it is empty.
EmitsAnyText(decoded_data) == TRUE

\* line 98: `if decoded_data:`
EmitsText(decoded_data) == decoded_data # << >>

\* Mutant of process_line: bytes that are not ASCII are dropped before
\* decoding (line.decode('utf-8', errors='ignore') for the inputs of the
\* model), so a corrupted frame is handled as text.
process_line_ignore_errors(line, state, popen_ok) ==
  IF SkipsLine(line) THEN [fx |-> NoEffects(state), decoded |-> FALSE]
  ELSE LET decoded_data == Strip(Utf8Decode(SelectSeq(line, LAMBDA b : b < 128))) IN
      IF EmitsText(decoded_data)
        THEN LET c == Classify(decoded_data)
                 h == IF c.call THEN handle_presence_event(c.ev, state, popen_ok)
                      ELSE NoEffects(state)
             IN [fx |-> Effects(h.presence_state,
                                <<Event(decoded_data, "uart_chunk")>> \o h.out,
                                <<Log("rx", 0)>> \o h.err,
                                h.calls, h.procs, h.handled),
                 decoded |-> TRUE]
        ELSE [fx |-> NoEffects(state), decoded |-> TRUE]

\* Mutant of process_line: the text is classified before it is printed, so
\* the events of a transition come out before the event of its frame.
process_line_classify_first(line, state, popen_ok) ==
  IF SkipsLine(line) THEN [fx |-> NoEffects(state), decoded |-> FALSE]
  ELSE IF Utf8Valid(line)
    THEN LET decoded_data == Strip(Utf8Decode(line)) IN
      IF EmitsText(decoded_data)
        THEN LET c == Classify(decoded_data)
                 h == IF c.call THEN handle_presence_event(c.ev, state, popen_ok)
                      ELSE NoEffects(state)
             IN [fx |-> Effects(h.presence_state,
                                h.out \o <<Event(decoded_data, "uart_chunk")>>,
                                h.err \o <<Log("rx", 0)>>,
                                h.calls, h.procs, h.handled),
                 decoded |-> TRUE]
        ELSE [fx |-> NoEffects(state), decoded |-> TRUE]
    ELSE [fx |-> Effects(state,
                         <<Event(Hex(line), "uart_raw_hex")>>,
                         <<Log("rx_hex", 0)>>,
                         << >>, << >>, << >>),
          decoded |-> TRUE]

\* The effects of handling one extracted line.  decoded: line 96 was reached.
process_line(line, state, popen_ok) ==
  IF SkipsLine(line) THEN [fx |-> NoEffects(state), decoded |-> FALSE]
  ELSE IF Utf8Valid(line)
    THEN LET decoded_data == Strip(Utf8Decode(line)) IN
      IF EmitsText(decoded_data)
        THEN LET c == Classify(decoded_data)
                 h == IF c.call THEN handle_presence_event(c.ev, state, popen_ok)
                      ELSE NoEffects(state)
             IN [fx |-> Effects(h.presence_state,
                                <<Event(decoded_data, "uart_chunk")>> \o h.out,
                                <<Log("rx", 0)>> \o h.err,
                                h.calls, h.procs, h.handled),
                 decoded |-> TRUE]
        ELSE [fx |-> NoEffects(state), decoded |-> TRUE]
    ELSE [fx |-> Effects(state,
                         <<Event(Hex(line), "uart_raw_hex")>>,
                         <<Log("rx_hex", 0)>>,
                         << >>, << >>, << >>),
          decoded |-> TRUE]

(***************************************************************************)
(* The line buffer (lines 84-89 and 130-132).                              *)
(***************************************************************************)
\* Mutant of Ingest: the chunk replaces the buffer (no carry between reads).
IngestNoCarry(buf, chunk) == chunk

\* line 84: line_buffer += chunk
Ingest(buf, chunk) == buf \o chunk

\* line 87: b'\n' in line_buffer
HasLine(buf) == \E i \in 1..Len(buf) : buf[i] = NL

\* line 89: line_buffer.split(b'\n', 1), for a buffer that holds a delimiter
SplitFirst(buf) ==
  LET i == CHOOSE x \in 1..Len(buf) : buf[x] = NL /\ \A y \in 1..(x - 1) : buf[y] # NL
  IN [line |-> SubSeq(buf, 1, i - 1), rest |-> SubSeq(buf, i + 1, Len(buf))]

\* Mutant of Overflows: the buffer is never found too large.
OverflowsNever(buf) == FALSE

\* Mutant of Overflows: the limit itself already overflows.
OverflowsAtLimit(buf) == Len(buf) >= OverflowLimit

\* line 130: len(line_buffer) > 10000
Overflows(buf) == Len(buf) > OverflowLimit

\* Mutant of Cleared: the warning is printed and the buffer kept.
NotCleared(buf) == buf

\* line 132: line_buffer = b''
Cleared(buf) == << >>

(***************************************************************************)
(* The sender processes (send_led_command, lines 24-28, starts             *)
(* send_uart_command.py).  A process is the brightness of its command and  *)
(* the place it has reached: "start" (before the port is opened, line 31), *)
(* "opened" (in the sleep of line 33), "writing" (in ser.write, line 53,   *)
(* a part of the bytes written), "done" (written and closed, lines 53-59)  *)
(* or "failed" (the port could not be opened, lines 34-37).                *)
(***************************************************************************)
Started(brightness) == [brightness |-> brightness, at |-> "start"]

\* Mutant of AwaitsSender: the listener waits for the process to exit
\* (subprocess.run in the place of subprocess.Popen).
AwaitsSenderExit(p) == p.at \notin {"done", "failed"}

\* Lines 24-28: Popen returns as soon as the process is started, and nothing
\* in the listener calls wait() or communicate() on it.
AwaitsSender(p) == FALSE

\* The listener is waiting for a sender process.
LoopBlocked == \E i \in 1..Len(senders) : AwaitsSender(senders[i])

(***************************************************************************)
(* The state of the debug monitor before its first read (uart_debug.py     *)
(* lines 32-33).  last_packet_time is << >> for None and <<t>> for the     *)
(* float t.  The clock is time.time() in ms: the seconds since 1970, so    *)
(* a positive number.                                                      *)
(***************************************************************************)
NoPackets == [heartrate |-> 0, presence |-> 0, corrupted |-> 0, other |-> 0]

(***************************************************************************)
(* The listener loop (lines 79-140).                                       *)
(***************************************************************************)
\* The state of a program that has opened the port and is at `at`.
InitAt(chunks, at) ==
  /\ line_buffer = << >>
  /\ presence_state = "on"
  /\ stdout = << >>
  /\ stderr = << >>
  /\ led_calls = << >>
  /\ launched = << >>
  /\ pc = at
  /\ frames = << >>
  /\ decodes = 0
  /\ handled = << >>
  /\ fed = << >>
  /\ chunkset = chunks
  /\ ser_open = TRUE
  /\ raised = 0
  /\ signalled = FALSE
  /\ senders = << >>
  /\ wire = << >>
  /\ last_packet_time = << >>
  /\ packet_count = NoPackets
  /\ clock = StartTime
  /\ report = << >>
  /\ arrivals = << >>

\* The listener before its first poll.
InitWith(chunks) == InitAt(chunks, "poll")

\* Lines 82-84: bytes are waiting; they are read and appended to the buffer.
\* (With nothing waiting the iteration only sleeps: no change of state.)
Poll ==
  /\ pc = "poll"
  /\ ~LoopBlocked
  /\ Len(fed) < MaxReads
  /\ \E k \in chunkset :
       /\ line_buffer' = Ingest(line_buffer, ChunkTable[k])
       /\ fed' = Append(fed, k)
  /\ pc' = "lines"
  /\ UNCHANGED <<presence_state, stdout, stderr, led_calls, launched, frames, decodes,
                 handled, chunkset>>
  /\ UNCHANGED <<procvars, sendvars, toolvars>>

\* Lines 87-127: one turn of the while loop: a line is extracted and handled.
ProcessLine ==
  /\ pc = "lines"
  /\ ~LoopBlocked
  /\ HasLine(line_buffer)
  /\ \E popen_ok \in BOOLEAN, sp \in {SplitFirst(line_buffer)} :
     \E r \in {process_line(sp.line, presence_state, popen_ok)} :
       LET fx == r.fx
       IN /\ line_buffer' = sp.rest
          /\ frames' = Append(frames, sp.line)
          /\ decodes' = (IF r.decoded THEN decodes + 1 ELSE decodes)
          /\ handled' = handled \o fx.handled
          /\ presence_state' = fx.presence_state
          /\ stdout' = stdout \o fx.out
          /\ stderr' = stderr \o fx.err
          /\ led_calls' = led_calls \o fx.calls
          /\ launched' = launched \o fx.procs
          /\ senders' = senders \o [j \in 1..Len(fx.procs) |-> Started(fx.procs[j])]
  /\ UNCHANGED <<pc, fed, chunkset, wire>>
  /\ UNCHANGED <<procvars, toolvars>>

\* Lines 87 and 130-135: no delimiter is left; the overflow check, then the
\* sleep before the next poll.
OverflowCheck ==
  /\ pc = "lines"
  /\ ~LoopBlocked
  /\ ~HasLine(line_buffer)
  /\ IF Overflows(line_buffer)
       THEN /\ stderr' = Append(stderr, Log("overflow", Len(line_buffer)))
            /\ line_buffer' = Cleared(line_buffer)
       ELSE UNCHANGED <<stderr, line_buffer>>
  /\ pc' = "poll"
  /\ UNCHANGED <<presence_state, stdout, led_calls, launched, frames, decodes, handled,
                 fed, chunkset>>
  /\ UNCHANGED <<procvars, sendvars, toolvars>>

Next == Poll \/ ProcessLine \/ OverflowCheck

\* Byte-level input: frames, delimiters, whitespace, valid and invalid UTF-8.
Init == InitWith(FrameChunks)
Spec == Init /\ [][Next]_vars

\* Packet-level input: presence packets, whole and split, and other JSON.
InitPresence == InitWith(PresenceChunks)
SpecPresence == InitPresence /\ [][Next]_vars

\* Bulk input: delimiter-free runs around the overflow limit.
InitBulk == InitWith(BulkChunks)
SpecBulk == InitBulk /\ [][Next]_vars

(***************************************************************************)
(* Exceptions in the loop (lines 80 and 137-140) and around it (lines 60   *)
(* and 142-152).  The exceptions of the model: a SerialException of        *)
(* ser.in_waiting or ser.read (lines 82-83: the device went away), a       *)
(* BlockingIOError of print (lines 105 and 108: the pipe is full), and     *)
(* the KeyboardInterrupt of a SIGINT, which can arrive at any statement.   *)
(***************************************************************************)
\* The number of exceptions raised in the loop that are explored.
MaxFaults == 1

\* Exception and its subclasses; KeyboardInterrupt derives from
\* BaseException only.
IsException(exc) == exc \in {"SerialException", "BlockingIOError"}

\* Mutant of LoopCatches: a bare `except:` at line 137.
LoopCatchesAll(exc) == TRUE

\* line 137: `except Exception as e`
LoopCatches(exc) == IsException(exc)

\* Where control goes when exc is raised at `at`: lines 82-135 are inside
\* the try of line 80; lines 139-140 are in its handler and so outside;
\* line 146 catches the KeyboardInterrupt that leaves the loop.
Target(exc, at) ==
  IF at \in {"poll", "lines"} /\ LoopCatches(exc) THEN "handler" ELSE "stopped"

\* Mutant of AfterError: the handler starts again from an empty buffer.
AfterErrorReset(buf) == << >>

\* Lines 137-140 do not assign line_buffer.
AfterError(buf) == buf

\* Lines 82-83 raise: nothing was read.
ReadError ==
  /\ pc = "poll"
  /\ ~LoopBlocked
  /\ raised < MaxFaults
  /\ pc' = Target("SerialException", pc)
  /\ raised' = raised + 1
  /\ UNCHANGED <<loopvars, ser_open, signalled, sendvars, toolvars>>

\* Lines 87-108 for a line that is printed, when a print raises: at line 105
\* (nothing was printed) or at line 108 (the event was printed, its log line
\* was not, and lines 111-117 are not reached).
LineError ==
  /\ pc = "lines"
  /\ ~LoopBlocked
  /\ HasLine(line_buffer)
  /\ raised < MaxFaults
  /\ \E sp \in {SplitFirst(line_buffer)} :
     \E r \in {process_line(sp.line, presence_state, TRUE)} :
        /\ r.fx.out # << >>
        /\ r.fx.out[1].type = "uart_chunk"
        /\ line_buffer' = sp.rest
        /\ frames' = Append(frames, sp.line)
        /\ decodes' = decodes + 1
        /\ \E at \in {105, 108} :
             stdout' = (IF at = 108 THEN Append(stdout, r.fx.out[1]) ELSE stdout)
  /\ pc' = Target("BlockingIOError", pc)
  /\ raised' = raised + 1
  /\ UNCHANGED <<presence_state, stderr, led_calls, launched, handled, fed, chunkset>>
  /\ UNCHANGED <<ser_open, signalled, sendvars, toolvars>>

\* Mutant of HandleError: the error is printed without file=sys.stderr.
HandleErrorOnStdout ==
  /\ pc = "handler"
  /\ stdout' = Append(stdout, Log("loop_error", 0))
  /\ line_buffer' = AfterError(line_buffer)
  /\ pc' = "poll"
  /\ UNCHANGED <<presence_state, stderr, led_calls, launched, frames, decodes, handled,
                 fed, chunkset>>
  /\ UNCHANGED <<procvars, sendvars, toolvars>>

\* Lines 137-140: the error is logged and the loop goes on with the next poll.
HandleError ==
  /\ pc = "handler"
  /\ stderr' = Append(stderr, Log("loop_error", 0))
  /\ line_buffer' = AfterError(line_buffer)
  /\ pc' = "poll"
  /\ UNCHANGED <<presence_state, stdout, led_calls, launched, frames, decodes, handled,
                 fed, chunkset>>
  /\ UNCHANGED <<procvars, sendvars, toolvars>>

\* A SIGINT arrives while the loop runs: KeyboardInterrupt is raised at the
\* current statement.  When it leaves the loop, lines 146-147 log the stop.
Interrupt ==
  /\ pc \in {"poll", "lines", "handler"}
  /\ ~signalled
  /\ signalled' = TRUE
  /\ pc' = Target("KeyboardInterrupt", pc)
  /\ stderr' = (IF pc' = "stopped" THEN Append(stderr, Log("stopped", 0)) ELSE stderr)
  /\ UNCHANGED <<line_buffer, presence_state, stdout, led_calls, launched, frames,
                 decodes, handled, fed, chunkset>>
  /\ UNCHANGED <<ser_open, raised, sendvars, toolvars>>

\* Lines 149-152: the finally clause closes the port, and the process ends.
Cleanup ==
  /\ pc = "stopped"
  /\ ser_open' = FALSE
  /\ stderr' = (IF ser_open THEN Append(stderr, Log("closed", 0)) ELSE stderr)
  /\ pc' = "done"
  /\ UNCHANGED <<line_buffer, presence_state, stdout, led_calls, launched, frames,
                 decodes, handled, fed, chunkset>>
  /\ UNCHANGED <<raised, signalled, sendvars, toolvars>>

\* The loop with the exceptions raised in it and around it.
NextFaulty == Next \/ ReadError \/ LineError \/ HandleError \/ Interrupt \/ Cleanup

\* Input for the loop with faults: a text that is no JSON, a delimiter, the
\* EXIT presence packet.
FaultChunks == {1, 2, 8}
InitFaulty == InitWith(FaultChunks)
SpecFaulty == InitFaulty /\ [][NextFaulty]_vars

\* The loop with faults on either input: presence packets, or delimiter-free
\* runs around the overflow limit.
OverflowChunks == {15, 16}
InitChannels == InitFaulty \/ InitWith(OverflowChunks)
SpecChannels == InitChannels /\ [][NextFaulty]_vars

\* The loop with faults on input of every size: two frames in one read, and
\* delimiter-free runs around the overflow limit.
BoundedChunks == {15, 22}
InitBounded == InitWith(BoundedChunks)
SpecBounded == InitBounded /\ [][NextFaulty]_vars

\* Input for the classification: a presence packet, a text that is no JSON,
\* an object without the marker, a JSON string, a whitespace-only frame, a
\* byte that makes a frame invalid UTF-8.
InitClassify == InitWith(ClassifyChunks)
SpecClassify == InitClassify /\ [][Next]_vars

(***************************************************************************)
(* The debug monitor (uart_debug.py).  Its loop has no line buffer: every  *)
(* read (line 38) is handled as one packet.  pc is "monitor" in the loop   *)
(* (line 35), "summary" after the statistics of lines 80-85 were printed,  *)
(* "done" when the process has ended.                                      *)
(***************************************************************************)
\* The number of reads of the monitor that are explored.
MaxPackets == 3

\* The time between two reads, in ms (the loop sleeps 1 ms between two
\* polls, line 77, so it is never 0).
Gaps == {5, 10, 50}

\* `sub in t` for two str.
Contains(t, sub) ==
  \E i \in 1..(Len(t) - Len(sub) + 1) : SubSeq(t, i, i + Len(sub) - 1) = sub

\* Mutant of PacketType: the presence test comes first and asks for 'event'
\* only.
PacketTypeEventFirst(decoded) ==
  IF Contains(decoded, KeyEvent) THEN "PRESENCE"
  ELSE IF Contains(decoded, StrAvgBpm) \/ Contains(decoded, StrIrValue) THEN "HEARTRATE"
  ELSE "OTHER"

\* Lines 51-59: the type of a decoded packet.
PacketType(decoded) ==
  IF Contains(decoded, StrAvgBpm) \/ Contains(decoded, StrIrValue) THEN "HEARTRATE"
  ELSE IF /\ Contains(decoded, KeyEvent)
          /\ (Contains(decoded, StrEXIT) \/ Contains(decoded, StrENTER))
    THEN "PRESENCE"
  ELSE "OTHER"

\* Lines 54, 57, 59 and 70: the counter of the type is incremented.
Counted(count, type) ==
  IF type = "HEARTRATE" THEN [count EXCEPT !.heartrate = @ + 1]
  ELSE IF type = "PRESENCE" THEN [count EXCEPT !.presence = @ + 1]
  ELSE IF type = "CORRUPTED" THEN [count EXCEPT !.corrupted = @ + 1]
  ELSE [count EXCEPT !.other = @ + 1]

\* Lines 41-43: `if last_packet_time:` is false for None and for 0.0.
TimeDelta(last, receive_time) ==
  IF last # << >> /\ last[1] # 0 THEN receive_time - last[1] ELSE 0

\* Mutant of IsCollision: the window includes its upper end.
IsCollisionInclusive(time_delta) == 0 < time_delta /\ time_delta <= CollisionWindow

\* Line 62: `0 < time_delta < 10`
IsCollision(time_delta) == 0 < time_delta /\ time_delta < CollisionWindow

\* Lines 65-66 and 72-74: what is printed for a packet.
Row(type, time_delta, flag, data) ==
  [type |-> type, delta |-> time_delta, flag |-> flag, data |-> data]

\* Lines 47-75: the row printed for the bytes of one read.  The collision
\* flag is computed in the try block only (line 62); the except block of
\* line 69 prints "DECODE ERROR" in its place.
packet_row(data, time_delta) ==
  IF Utf8Valid(data)
    THEN LET decoded == Strip(Utf8Decode(data)) IN
           Row(PacketType(decoded), time_delta,
               IF IsCollision(time_delta) THEN "COLLISION?" ELSE "", decoded)
    ELSE Row("CORRUPTED", time_delta, "DECODE ERROR", Hex(data))

\* Lines 80-85: the statistics printed at a KeyboardInterrupt.
StatsRow(count) ==
  Row("STATS", 0, IF count.corrupted > 0 THEN "BUS COLLISIONS DETECTED!" ELSE "", count)

InitMonitor == InitAt(MonitorChunks, "monitor")

\* Lines 36-75: bytes are waiting; they are read and handled as one packet.
MonitorRead ==
  /\ pc = "monitor"
  /\ Len(fed) < MaxPackets
  /\ \E k \in chunkset, gap \in Gaps :
     \E row \in {packet_row(ChunkTable[k], TimeDelta(last_packet_time, clock + gap))} :
       LET receive_time == clock + gap
       IN /\ clock' = receive_time
          /\ fed' = Append(fed, k)
          /\ last_packet_time' = <<receive_time>>
          /\ packet_count' = Counted(packet_count, row.type)
          /\ report' = Append(report, row)
          /\ arrivals' = Append(arrivals, receive_time)
  /\ UNCHANGED <<line_buffer, presence_state, stdout, stderr, led_calls, launched,
                 frames, decodes, handled, chunkset>>
  /\ UNCHANGED <<pc, procvars, sendvars>>

\* A SIGINT arrives while the loop runs: no handler in the loop catches the
\* KeyboardInterrupt, and lines 79-85 print the statistics.
MonitorInterrupt ==
  /\ pc = "monitor"
  /\ ~signalled
  /\ signalled' = TRUE
  /\ report' = Append(report, StatsRow(packet_count))
  /\ pc' = "summary"
  /\ UNCHANGED <<loopvars, ser_open, raised, sendvars, last_packet_time, packet_count,
                 clock, arrivals>>

\* Lines 87-89: the finally clause closes the port, and the process ends.
MonitorCleanup ==
  /\ pc = "summary"
  /\ ser_open' = FALSE
  /\ pc' = "done"
  /\ UNCHANGED <<loopvars, raised, signalled, sendvars, toolvars>>

NextMonitor == MonitorRead \/ MonitorInterrupt \/ MonitorCleanup
SpecMonitor == InitMonitor /\ [][NextMonitor]_vars

(***************************************************************************)
(* The two programs, each with the signals and exceptions it can get: a    *)
(* behaviour is a run of the listener or a run of the monitor.  A process  *)
(* that was interrupted keeps running until it ends: its finally clause    *)
(* is executed.                                                            *)
(***************************************************************************)
InitTools == InitFaulty \/ InitMonitor
NextTools == NextFaulty \/ NextMonitor
SpecTools == InitTools /\ [][NextTools]_vars
FairTools == SpecTools /\ WF_vars(Cleanup) /\ WF_vars(MonitorCleanup)

(***************************************************************************)
(* The sender processes run on their own, each at its own pace             *)
(* (send_uart_command.py).                                                 *)
(***************************************************************************)
\* send_uart_command.py line 31: the process opens the port (and then sleeps,
\* line 33), or the port cannot be opened and the process exits (lines 34-37).
SenderOpen ==
  /\ \E i \in 1..Len(senders), ok \in BOOLEAN :
       /\ senders[i].at = "start"
       /\ senders' = [senders EXCEPT ![i].at = IF ok THEN "opened" ELSE "failed"]
  /\ UNCHANGED <<loopvars, pc, procvars, wire, toolvars>>

\* The bytes the port accepted in one write of sender i: the whole command
\* line ("all"), or its first part ("head") and then the rest ("tail").
Written(i, part) == [sender |-> i, brightness |-> senders[i].brightness, part |-> part]

\* send_uart_command.py lines 41-59: the sleep is over, ser.write is called
\* and the port takes the whole command line; flush and close.  A sender
\* takes no lock and waits for no other sender.
SenderWrite ==
  /\ \E i \in 1..Len(senders) :
       /\ senders[i].at = "opened"
       /\ wire' = Append(wire, Written(i, "all"))
       /\ senders' = [senders EXCEPT ![i].at = "done"]
  /\ UNCHANGED <<loopvars, pc, procvars, toolvars>>

\* send_uart_command.py line 53: the port takes only a first part of the
\* command line, and ser.write waits to write the rest.
SenderWritePart ==
  /\ \E i \in 1..Len(senders) :
       /\ senders[i].at = "opened"
       /\ wire' = Append(wire, Written(i, "head"))
       /\ senders' = [senders EXCEPT ![i].at = "writing"]
  /\ UNCHANGED <<loopvars, pc, procvars, toolvars>>

\* send_uart_command.py lines 53-59: ser.write writes the rest of the line;
\* flush and close.
SenderFinish ==
  /\ \E i \in 1..Len(senders) :
       /\ senders[i].at = "writing"
       /\ wire' = Append(wire, Written(i, "tail"))
       /\ senders' = [senders EXCEPT ![i].at = "done"]
  /\ UNCHANGED <<loopvars, pc, procvars, toolvars>>

\* The loop and the processes it started, each write taken whole.
NextDispatch == Next \/ SenderOpen \/ SenderWrite

\* Input that makes transitions: the two presence packets.
DispatchChunks == {8, 9}
InitDispatch == InitWith(DispatchChunks)
SpecDispatch == InitDispatch /\ [][NextDispatch]_vars

\* The loop keeps running (it is the main thread of its process): an
\* iteration that waits for nothing comes to its end, the while loop of
\* line 87 taking one line out of a finite buffer at every turn.  Nothing is
\* assumed of the sender processes: they may stop anywhere, for ever.
IterationEnds == pc = "lines" /\ ~LoopBlocked /\ pc' = "poll"
FairDispatch == SpecDispatch /\ WF_pc(IterationEnds)

\* The loop and the processes it started, with the writes the port takes in
\* two parts.
NextWire == NextDispatch \/ SenderWritePart \/ SenderFinish
SpecWire == InitDispatch /\ [][NextWire]_vars

(***************************************************************************)
(* Definitions used to state the properties.                               *)
(***************************************************************************)
\* The bytes of the chunks with indices ks, concatenated.
RECURSIVE Concat(_)
Concat(ks) == IF ks = << >> THEN << >> ELSE ChunkTable[Head(ks)] \o Concat(Tail(ks))

\* Every byte read so far, in arrival order.
FedBytes == Concat(fed)

\* The positions of the delimiters in a byte stream, and the k-th of them
\* (position 0 for k = 0).
Delimiters(bs) == {i \in 1..Len(bs) : bs[i] = NL}
Delimiter(bs, k) ==
  IF k = 0 THEN 0
  ELSE CHOOSE p \in Delimiters(bs) : Cardinality({q \in Delimiters(bs) : q < p}) = k - 1

\* The frames of a byte stream: the k-th is the bytes between delimiter k-1
\* and delimiter k.  The remainder is what follows the last delimiter.
FramesOf(bs) ==
  [k \in 1..Cardinality(Delimiters(bs)) |->
     SubSeq(bs, Delimiter(bs, k - 1) + 1, Delimiter(bs, k) - 1)]
RemainderOf(bs) ==
  SubSeq(bs, Delimiter(bs, Cardinality(Delimiters(bs))) + 1, Len(bs))

\* The overflow warnings printed so far.
OverflowWarnings == SelectSeq(stderr, LAMBDA l : l.k = "overflow")

\* The synthetic events of handle_presence_event, and the data events of
\* stdout: those that carry a frame.
IsSynthetic(e) == e.data \in {ScreenDimData, ScreenBrightenData}
DataEvents == SelectSeq(stdout, LAMBDA e : ~IsSynthetic(e))

IsBlank(line) == \A i \in 1..Len(line) : IsSpace(line[i])
Emitted(line) == line # << >> /\ ~(Utf8Valid(line) /\ IsBlank(Utf8Decode(line)))

Qualifies(text) == text \in {ExitText, EnterText, OtherEventText}

\* The step extracts a line and raises nothing.
HandlesLine == frames' # frames /\ raised' = raised
\* The line the step extracts.
NewLine == frames'[Len(frames')]

Receives(ev, state) ==
  /\ presence_state = state
  /\ handled' = Append(handled, [ev |-> ev, state |-> state])

\* The step appends to stdout the event of the frame and then `events`.
PrintsAfterFrame(events) ==
  /\ Len(stdout') = Len(stdout) + 1 + Len(events)
  /\ SubSeq(stdout', 1, Len(stdout)) = stdout
  /\ ~IsSynthetic(stdout'[Len(stdout) + 1])
  /\ SubSeq(stdout', Len(stdout) + 2, Len(stdout')) = events

(***************************************************************************)
(* C4.  Dim transition.  Whenever handle_presence_event receives EXIT      *)
(* while the presence state is "on", the state becomes "sleep",            *)
(* send_led_command is called exactly once, with brightness 10, and        *)
(* exactly one synthetic screen_dim event is printed on stdout.            *)
(***************************************************************************)
C4_DimTransition ==
  [][Receives(StrValue(StrEXIT), "on") =>
       /\ presence_state' = "sleep"
       /\ led_calls' = Append(led_calls, 10)
       /\ PrintsAfterFrame(<<Event(ScreenDimData, "uart_chunk")>>)]_vars

\* EXIT was received in state "on".
C4_Witness ==
  /\ handled = <<[ev |-> StrValue(StrEXIT), state |-> "on"]>>
  /\ presence_state = "sleep"
  /\ led_calls = <<10>>

(***************************************************************************)
(* C5.  Brighten transition.  Whenever handle_presence_event receives      *)
(* ENTER while the presence state is "sleep", the state becomes "on",      *)
(* send_led_command is called exactly once, with brightness 100, and       *)
(* exactly one synthetic screen_brighten event is printed on stdout.       *)
(***************************************************************************)
C5_BrightenTransition ==
  [][Receives(StrValue(StrENTER), "sleep") =>
       /\ presence_state' = "on"
       /\ led_calls' = Append(led_calls, 100)
       /\ PrintsAfterFrame(<<Event(ScreenBrightenData, "uart_chunk")>>)]_vars

\* ENTER was received in state "sleep".
C5_Witness ==
  /\ Len(handled) = 2
  /\ handled[2] = [ev |-> StrValue(StrENTER), state |-> "sleep"]
  /\ presence_state = "on"
  /\ led_calls = <<10, 100>>

(***************************************************************************)
(* C6.  No-op.  For every call of handle_presence_event with a pair        *)
(* (state, event) other than ("on", EXIT) and ("sleep", ENTER), the        *)
(* presence state is unchanged, send_led_command is not called, no sender  *)
(* process is started and no synthetic event is printed, however often     *)
(* the event is repeated.                                                  *)
(***************************************************************************)
C6_NoOp ==
  [][(/\ Len(handled') = Len(handled) + 1
      /\ SubSeq(handled', 1, Len(handled)) = handled
      /\ handled'[Len(handled')].state = presence_state
      /\ <<presence_state, handled'[Len(handled')].ev>> \notin
           {<<"on", StrValue(StrEXIT)>>, <<"sleep", StrValue(StrENTER)>>}) =>
        /\ presence_state' = presence_state
        /\ led_calls' = led_calls
        /\ launched' = launched
        /\ PrintsAfterFrame(<< >>)]_vars

\* EXIT was received three times: the first call dimmed, the two repeats did
\* nothing.
C6_Witness ==
  /\ Len(handled) = 3
  /\ \A i \in 1..3 : handled[i].ev = StrValue(StrEXIT)
  /\ handled[2].state = "sleep"
  /\ handled[3].state = "sleep"
  /\ presence_state = "sleep"
  /\ led_calls = <<10>>
  /\ Len(stdout) = 4

(***************************************************************************)
(* C7.  End to end.  Starting in state "on" with an empty buffer, the      *)
(* single chunk {"node_type":"HP","event":"EXIT"}\n gives, once the        *)
(* iteration is over, exactly one uart_chunk event carrying that payload,  *)
(* exactly one synthetic screen_dim event after it, exactly one            *)
(* send_led_command call, with brightness 10, and the state "sleep".       *)
(***************************************************************************)
C7_EndToEndExit ==
  (pc = "poll" /\ fed # << >> /\ FedBytes = ExitText \o <<NL>> /\ Len(fed) = 1) =>
     /\ stdout = <<Event(ExitText, "uart_chunk"), Event(ScreenDimData, "uart_chunk")>>
     /\ led_calls = <<10>>
     /\ presence_state = "sleep"
     /\ line_buffer = << >>

\* The iteration that read the EXIT packet as one chunk is over.
C7_Witness ==
  /\ pc = "poll"
  /\ Len(fed) = 1
  /\ FedBytes = ExitText \o <<NL>>
  /\ presence_state = "sleep"

(***************************************************************************)
(* C8.  Overflow policy.  At the overflow check that ends an iteration     *)
(* (the buffer holds no delimiter there): a buffer of more than 10,000     *)
(* bytes is discarded whole and one overflow warning is written to stderr, *)
(* while no frame is extracted and nothing is printed on stdout; a buffer  *)
(* of at most 10,000 bytes, so one of exactly 10,000, is kept as it is and *)
(* no warning is written.  Nothing of a discarded buffer is emitted later: *)
(* every frame extracted is made of bytes read after the last discard.     *)
(***************************************************************************)
\* The bytes of the chunks ks that are never discarded, acc being those of
\* the chunks before: after each chunk, what follows the last delimiter is
\* dropped when it is longer than 10,000 bytes.
RECURSIVE KeptBytes(_, _)
KeptBytes(ks, acc) ==
  IF ks = << >> THEN acc
  ELSE LET all == acc \o ChunkTable[Head(ks)] IN
         KeptBytes(Tail(ks),
                   IF Len(RemainderOf(all)) > 10000
                     THEN SubSeq(all, 1, Len(all) - Len(RemainderOf(all)))
                     ELSE all)

C8_NoResidue ==
  pc = "poll" =>
     /\ frames = FramesOf(KeptBytes(fed, << >>))
     /\ line_buffer = RemainderOf(KeptBytes(fed, << >>))

C8_OverflowPolicy ==
  /\ []C8_NoResidue
  /\ [][(pc = "lines" /\ pc' = "poll") =>
          /\ ~HasLine(line_buffer)
          /\ frames' = frames
          /\ stdout' = stdout
          /\ IF Len(line_buffer) > 10000
               THEN /\ line_buffer' = << >>
                    /\ stderr' = Append(stderr, Log("overflow", Len(line_buffer)))
               ELSE /\ line_buffer' = line_buffer
                    /\ stderr' = stderr]_vars

\* A buffer of 10,001 bytes was discarded with one warning, and a buffer of
\* exactly 10,000 bytes has passed the check and is kept.
C8_Witness ==
  /\ pc = "poll"
  /\ fed = <<15, 16, 15>>
  /\ OverflowWarnings = <<Log("overflow", 10001)>>
  /\ Len(line_buffer) = 10000
  /\ stdout = << >>

(***************************************************************************)
(* C9.  Overflow recovery.  After 10,001 delimiter-free bytes were read    *)
(* (in any of the model's ways of cutting them into chunks), the buffer    *)
(* was cleared with exactly one overflow warning; the frame "ok\n" read    *)
(* next is extracted with exactly its own bytes, decoded and emitted as    *)
(* one uart_chunk event.                                                   *)
(***************************************************************************)
C9_OverflowRecovery ==
  (/\ pc = "poll"
   /\ Len(fed) = 3
   /\ Concat(SubSeq(fed, 1, 2)) = Fill(10001)
   /\ ChunkTable[fed[3]] = <<111, 107, NL>>) =>
     /\ OverflowWarnings = <<Log("overflow", 10001)>>
     /\ frames = << <<111, 107>> >>
     /\ stdout = <<Event(<<111, 107>>, "uart_chunk")>>
     /\ line_buffer = << >>

\* 10,000 + 1 filler bytes, then "ok\n": the frame came out clean.
C9_Witness ==
  /\ pc = "poll"
  /\ fed = <<15, 16, 17>>
  /\ frames = << <<111, 107>> >>

(***************************************************************************)
(* C12.  Synthetic emissions.  A step changes the presence state exactly   *)
(* when it prints a synthetic event, and then it prints exactly two        *)
(* events: the data event of the frame it extracted, and right after it    *)
(* the one synthetic event of the transition (screen_dim on entering       *)
(* "sleep", screen_brighten on entering "on").  So the synthetic events    *)
(* are as many as the transitions, and each stands right after the data    *)
(* event of its frame and before the data event of any later frame.  In    *)
(* every state the synthetic events alternate, starting with screen_dim,   *)
(* and the state is "sleep" exactly when their number is odd.              *)
(***************************************************************************)
Printed == SubSeq(stdout', Len(stdout) + 1, Len(stdout'))
Synthetics == SelectSeq(stdout, IsSynthetic)

C12_SyntheticEmissions ==
  /\ [][/\ SubSeq(stdout', 1, Len(stdout)) = stdout
        /\ IF presence_state' # presence_state
             THEN /\ frames' # frames
                  /\ Len(Printed) = 2
                  /\ Printed[1] = Event(Strip(Utf8Decode(NewLine)), "uart_chunk")
                  /\ Printed[2] = Event(IF presence_state' = "sleep" THEN ScreenDimData
                                        ELSE ScreenBrightenData, "uart_chunk")
             ELSE \A i \in 1..Len(Printed) : ~IsSynthetic(Printed[i])]_vars
  /\ [](/\ \A i \in 1..Len(Synthetics) :
              Synthetics[i].data = (IF i % 2 = 1 THEN ScreenDimData ELSE ScreenBrightenData)
        /\ (presence_state = "sleep") <=> (Len(Synthetics) % 2 = 1))

\* Two transitions: each synthetic event right after the event of its frame.
C12_Witness ==
  /\ fed = <<8, 9, 13>>
  /\ stdout = <<Event(ExitText, "uart_chunk"), Event(ScreenDimData, "uart_chunk"),
                Event(EnterText, "uart_chunk"), Event(ScreenBrightenData, "uart_chunk"),
                Event(NoMarkerText, "uart_chunk")>>
  /\ presence_state = "on"

(***************************************************************************)
(* C13.  The presence state is mutated only by a qualifying presence       *)
(* event.  It starts as "on".  A step changes it, calls send_led_command   *)
(* or starts a sender process only when it extracts a frame that is valid  *)
(* UTF-8 and whose stripped text is a JSON object with node_type "HP" and  *)
(* an event field; a frame that is not UTF-8 (emitted as hex), a text      *)
(* that is no JSON, a JSON value that is no object and an object without   *)
(* the marker leave the state and dispatch nothing.                        *)
(***************************************************************************)
C13_OnlyPresenceEventsMutate ==
  /\ [](fed = << >> => presence_state = "on")
  /\ [][(\/ presence_state' # presence_state
         \/ led_calls' # led_calls
         \/ launched' # launched
         \/ senders' # senders
         \/ handled' # handled) =>
          /\ frames' # frames
          /\ Utf8Valid(NewLine)
          /\ Qualifies(Strip(Utf8Decode(NewLine)))]_vars
  /\ [][(frames' # frames /\ ~(Utf8Valid(NewLine) /\ NewLine # << >>)) =>
          /\ UNCHANGED <<presence_state, led_calls, launched, senders, handled>>
          /\ (NewLine # << >> => Printed = <<Event(Hex(NewLine), "uart_raw_hex")>>)]_vars

\* A corrupted EXIT packet (emitted as hex) and an object without the marker
\* were handled and left the state "on"; then an EXIT packet changed it.
C13_Witness ==
  /\ fed = <<19, 8, 13, 8>>
  /\ Len(stdout) = 4
  /\ stdout[1].type = "uart_raw_hex"
  /\ stdout[2] = Event(NoMarkerText, "uart_chunk")
  /\ stdout[4] = Event(ScreenDimData, "uart_chunk")
  /\ led_calls = <<DimBrightness>>
  /\ presence_state = "sleep"

(***************************************************************************)
(* C14.  Fire-and-forget dispatch.  The loop never waits for a sender      *)
(* process: once bytes were read, every frame in them is extracted and     *)
(* emitted and the loop is back at its poll, whatever the sender           *)
(* processes do, also when none of them ever takes a step; and every       *)
(* transition has made its own send_led_command call, each successful      *)
(* call having started its own process.                                    *)
(***************************************************************************)
C14_FireAndForget ==
  /\ \A n \in 1..MaxReads :
       (Len(fed) = n /\ pc = "lines")
         ~> (pc = "poll" /\ Len(fed) = n /\ Len(DataEvents) = n)
  /\ [](/\ Len(led_calls) = Len(Synthetics)
        /\ Len(senders) = Len(launched)
        /\ \A i \in 1..Len(senders) : senders[i].brightness = launched[i])

\* The process of the first transition never got beyond its start, and the
\* two frames after it were emitted and the next transition dispatched.
C14_Witness ==
  /\ pc = "poll"
  /\ fed = <<8, 9, 9>>
  /\ Len(DataEvents) = 3
  /\ led_calls = <<DimBrightness, FullBrightness>>
  /\ Len(senders) = 2
  /\ senders[1] = Started(DimBrightness)
  /\ senders[2] = Started(FullBrightness)

(***************************************************************************)
(* C15.  Cancellation closes the transport on every exit path.  In the     *)
(* listener and in the monitor, once a KeyboardInterrupt was delivered     *)
(* (at the poll, inside the while loop, or inside the handler of line      *)
(* 137) the serial port is eventually closed; the step that delivers it    *)
(* leaves the loop (the handler of line 137 does not take it); and a       *)
(* process that has ended was interrupted and has closed its port.  The    *)
(* port is open as long as the process runs its loop.                      *)
(***************************************************************************)
C15_CancellationClosesPort ==
  /\ signalled ~> ~ser_open
  /\ [][(signalled' /\ ~signalled) => pc' \in {"stopped", "summary"}]_vars
  /\ [](pc = "done" => (signalled /\ ~ser_open))
  /\ [](pc \in {"poll", "lines", "handler", "monitor"} => (ser_open /\ ~signalled))

\* The listener was interrupted inside the handler of line 137 and has
\* closed its port.
C15_Witness ==
  /\ pc = "done"
  /\ raised = 1
  /\ signalled
  /\ ~ser_open
  /\ stderr = <<Log("stopped", 0), Log("closed", 0)>>

(***************************************************************************)
(* C16.  Loop availability.  An exception raised inside an iteration       *)
(* (by the read of lines 82-83 or by a print of lines 105-108) takes       *)
(* control to the handler of line 137, which logs it on stderr and goes    *)
(* on with the next poll.  Neither step ends the process (the port stays   *)
(* open), changes the presence state or dispatches; the buffer keeps       *)
(* what it held when the exception was raised (all of it, or what          *)
(* follows the line being handled), and the handler leaves it alone: the   *)
(* lines extracted so far, each with its delimiter, followed by the        *)
(* buffer are always the bytes read.  Once the handler is done, every      *)
(* exception raised has its line on stderr.                                *)
(***************************************************************************)
RECURSIVE Rejoined(_)
Rejoined(lines) ==
  IF lines = << >> THEN << >> ELSE Head(lines) \o <<NL>> \o Rejoined(Tail(lines))

LoopErrors == SelectSeq(stderr, LAMBDA l : l.k = "loop_error")

C16_LoopAvailability ==
  /\ [][raised' # raised =>
          /\ raised' = raised + 1
          /\ pc' = "handler"
          /\ ser_open'
          /\ UNCHANGED <<presence_state, led_calls, launched, senders, stderr>>
          /\ \/ line_buffer' = line_buffer
             \/ HasLine(line_buffer) /\ line_buffer' = SplitFirst(line_buffer).rest]_vars
  /\ [][(pc = "handler" /\ pc' # "handler" /\ ~signalled') =>
          /\ pc' = "poll"
          /\ stderr' = Append(stderr, Log("loop_error", 0))
          /\ ser_open'
          /\ UNCHANGED <<line_buffer, presence_state, led_calls, launched, senders, stdout>>]_vars
  /\ [](/\ Rejoined(frames) \o line_buffer = FedBytes
        /\ Len(LoopErrors) = (IF pc = "handler" /\ ~signalled THEN raised - 1 ELSE raised)
             \/ signalled)

\* "o" was read; the next read raised and the error was logged; then the
\* delimiter was read and the frame "o", kept in the buffer, was emitted.
C16_Witness ==
  /\ pc = "poll"
  /\ fed = <<1, 2>>
  /\ raised = 1
  /\ stderr = <<Log("loop_error", 0), Log("rx", 0)>>
  /\ stdout = <<Event(<<111>>, "uart_chunk")>>
  /\ ser_open

(***************************************************************************)
(* C17.  Primary channel purity.  In every reachable state, every line of  *)
(* stdout is one output event, with its data and its type (and its         *)
(* timestamp, which the model leaves out), the type being uart_chunk or    *)
(* uart_raw_hex; it is the event of an extracted frame or the synthetic    *)
(* event of a transition, so stdout has as many lines as those.  Every     *)
(* log line is on stderr: the overflow warnings, the loop errors, the      *)
(* dispatch logs (one per send_led_command call, a failure for every call  *)
(* that started no process) and the status messages.                       *)
(***************************************************************************)
LogKinds ==
  {"rx", "rx_hex", "overflow", "loop_error", "led_set", "led_fail", "sleep_mode",
   "active_mode", "stopped", "closed"}
LogsOf(kind) == SelectSeq(stderr, LAMBDA l : l.k = kind)

C17_ChannelPurity ==
  /\ \A i \in 1..Len(stdout) :
       /\ DOMAIN stdout[i] = {"data", "type"}
       /\ stdout[i].type \in {"uart_chunk", "uart_raw_hex"}
       /\ stdout[i].data # << >>
  /\ \A i \in 1..Len(stderr) :
       /\ DOMAIN stderr[i] = {"k", "n"}
       /\ stderr[i].k \in LogKinds
  /\ Len(stdout) <= Len(frames) + Len(led_calls)
  /\ Len(LogsOf("led_set")) = Len(launched)
  /\ Len(LogsOf("led_fail")) = Len(led_calls) - Len(launched)
  /\ Len(LogsOf("sleep_mode")) + Len(LogsOf("active_mode")) = Len(led_calls)
  /\ Len(LogsOf("loop_error")) <= raised
  /\ (pc = "poll" /\ ~signalled) => Len(LogsOf("loop_error")) = raised
  /\ Len(LogsOf("stopped")) = (IF signalled THEN 1 ELSE 0)
  /\ Len(LogsOf("closed")) = (IF ser_open THEN 0 ELSE 1)

\* A loop error, a failed dispatch and the two status messages are on
\* stderr, and stdout holds the event of the frame and the synthetic event.
C17_Witness ==
  /\ pc = "done"
  /\ stdout = <<Event(ExitText, "uart_chunk"), Event(ScreenDimData, "uart_chunk")>>
  /\ stderr = <<Log("loop_error", 0), Log("rx", 0), Log("led_fail", 0),
                Log("sleep_mode", 0), Log("stopped", 0), Log("closed", 0)>>

(***************************************************************************)
(* The rows the monitor printed for its reads (the statistics row left     *)
(* out), and the time between read i and the read before it, in ms.        *)
(***************************************************************************)
PacketRows == SelectSeq(report, LAMBDA r : r.type # "STATS")
Gap(i) == arrivals[i] - arrivals[i - 1]

Units(ks) == Cardinality({i \in 1..Len(fed) : fed[i] \in ks})
Counters == {"heartrate", "presence", "other", "corrupted"}

C19_TallyPartition ==
  /\ [](/\ DOMAIN packet_count = Counters
        /\ packet_count.heartrate + packet_count.presence + packet_count.other
             + packet_count.corrupted = Len(fed)
        /\ packet_count.corrupted = Units({4})
        /\ packet_count.heartrate = Units({20, 21})
        /\ packet_count.presence = Units({8})
        /\ packet_count.other = Units({10, 11}))
  /\ [][/\ \A c \in Counters : packet_count'[c] >= packet_count[c]
        /\ fed' # fed =>
             \E c \in Counters :
               /\ packet_count'[c] = packet_count[c] + 1
               /\ \A o \in Counters \ {c} : packet_count'[o] = packet_count[o]]_vars

\* One unit of each kind, the heart-rate one holding the presence markers too.
C19_Witness ==
  /\ fed = <<21, 8, 4>>
  /\ packet_count = [heartrate |-> 1, presence |-> 1, corrupted |-> 1, other |-> 0]

(***************************************************************************)
(* C20.  As claimed: the monitor tallies once per newline-delimited        *)
(* frame, so its tally does not depend on how the byte stream was cut      *)
(* into reads: whenever the bytes read so far end with a delimiter, the    *)
(* counters are the numbers of frames of each kind among the frames of     *)
(* those bytes (a frame that does not decode being corrupted, the others   *)
(* being typed by their markers).                                          *)
(***************************************************************************)
TypeOfFrame(f) ==
  IF Utf8Valid(f) THEN PacketType(Strip(Utf8Decode(f))) ELSE "CORRUPTED"
FramesOfType(fs, type) == Cardinality({i \in 1..Len(fs) : TypeOfFrame(fs[i]) = type})
TallyOfFrames(fs) ==
  [heartrate |-> FramesOfType(fs, "HEARTRATE"),
   presence |-> FramesOfType(fs, "PRESENCE"),
   corrupted |-> FramesOfType(fs, "CORRUPTED"),
   other |-> FramesOfType(fs, "OTHER")]

C20_TallyPerFrame ==
  RemainderOf(FedBytes) = << >> => packet_count = TallyOfFrames(FramesOf(FedBytes))

(***************************************************************************)
(* C21.  Bounded buffer invariant.  Every loop iteration that comes to its *)
(* end through the overflow check (lines 87-135: the complete frames were  *)
(* extracted, line 130 was evaluated) leaves a line buffer that holds no   *)
(* delimiter byte and at most 10,000 bytes, whatever chunks were read and  *)
(* whatever happened in the iterations before it.                          *)
(***************************************************************************)
C21_BoundedBuffer ==
  [][(pc = "lines" /\ pc' = "poll")
       => /\ ~HasLine(line_buffer')
          /\ Len(line_buffer') <= OverflowLimit]_vars

\* An iteration ended with frames extracted and exactly 10,000 delimiter-free
\* bytes retained, after an earlier iteration had been cut by an error.
C21_Witness ==
  /\ pc = "poll"
  /\ frames # << >>
  /\ raised > 0
  /\ Len(line_buffer) = OverflowLimit
  /\ Len(fed) >= 2 /\ fed[Len(fed)] = 15

(***************************************************************************)
(* C22.  Actuator command alternation.  The brightness values of the       *)
(* send_led_command calls made so far are 10, 100, 10, 100, ... in this    *)
(* order, starting with 10; the presence state is "on" (active) or         *)
(* "sleep" (dimmed) and never the "off" of the comment of line 14; and it  *)
(* is "sleep" exactly when the last call made had brightness 10.           *)
(***************************************************************************)
C22_Alternation ==
  /\ \A i \in 1..Len(led_calls) :
       led_calls[i] = (IF i % 2 = 1 THEN DimBrightness ELSE FullBrightness)
  /\ presence_state \in {"on", "sleep"}
  /\ presence_state = "sleep"
       <=> (led_calls # << >> /\ led_calls[Len(led_calls)] = DimBrightness)

\* Three transitions were dispatched (dim, brighten, dim), one of them with a
\* sender that could not be started, among presence events that change
\* nothing.
C22_Witness ==
  /\ led_calls = <<DimBrightness, FullBrightness, DimBrightness>>
  /\ Len(launched) < Len(led_calls)
  /\ Len(handled) > Len(led_calls)
  /\ presence_state = "sleep"

(***************************************************************************)
(* C23.  A failed actuator dispatch does not undo or block the transition. *)
(* In every step in which send_led_command was called and started no       *)
(* sender process: the failure is logged on the diagnostic channel,        *)
(* between the log line of the frame and the log line of the new mode; the *)
(* presence state has changed; the synthetic event of the new state is     *)
(* printed after the event of the frame; exactly one call was made; and    *)
(* the loop is still in its while loop with the rest of the buffer, no     *)
(* exception having reached line 137.                                      *)
(***************************************************************************)
FailedDispatch == led_calls' # led_calls /\ launched' = launched

C23_FailedDispatch ==
  [][FailedDispatch =>
       /\ presence_state' # presence_state
       /\ stderr' = stderr \o <<Log("rx", 0), Log("led_fail", 0),
                                 Log(IF presence_state' = "sleep" THEN "sleep_mode"
                                                                  ELSE "active_mode", 0)>>
       /\ Len(stdout') = Len(stdout) + 2
       /\ stdout'[Len(stdout')] =
            Event(IF presence_state' = "sleep" THEN ScreenDimData ELSE ScreenBrightenData,
                  "uart_chunk")
       /\ led_calls' = Append(led_calls, IF presence_state' = "sleep" THEN DimBrightness
                                                                      ELSE FullBrightness)
       /\ senders' = senders
       /\ pc' = "lines" /\ pc = "lines"
       /\ raised' = raised
       /\ line_buffer' = SplitFirst(line_buffer).rest
       /\ frames' = Append(frames, SplitFirst(line_buffer).line)]_vars

\* Both transitions were dispatched without a sender being started, and a
\* frame that arrived after the first failure was handled as a transition.
C23_Witness ==
  /\ led_calls = <<DimBrightness, FullBrightness>>
  /\ launched = << >>
  /\ presence_state = "on"
  /\ Len(SelectSeq(stderr, LAMBDA l : l.k = "led_fail")) = 2
  /\ Len(SelectSeq(stdout, LAMBDA e : IsSynthetic(e))) = 2

(***************************************************************************)
(* C24.  Ordering of detached actuator commands.  The sender processes     *)
(* write their command lines to the serial port in the order in which      *)
(* they were dispatched and without interleaving their bytes: a write of   *)
(* a sender is never followed by a write of a sender started before it;    *)
(* and once every sender started has finished, the last brightness         *)
(* written is the one of the presence state, 10 in "sleep" and 100 in      *)
(* "on".                                                                   *)
(***************************************************************************)
AllSendersFinished == \A i \in 1..Len(senders) : senders[i].at \in {"done", "failed"}

C24_DispatchOrder ==
  /\ \A j \in 1..Len(wire) : \A k \in (j + 1)..Len(wire) :
       wire[j].sender <= wire[k].sender
  /\ (AllSendersFinished /\ wire # << >>)
       => wire[Len(wire)].brightness =
            (IF presence_state = "sleep" THEN DimBrightness ELSE FullBrightness)
====
